---- MODULE Spec2Model ----
(***************************************************************************)
(* A model of the B.A.D.I. plan executor (badi/core/executor.py), the      *)
(* module registry and the module contract (badi/modules/base.py) with the *)
(* two registered providers (memory_tools, system_control).                *)
(*                                                                         *)
(* Spec is execute_plan called on any plan; SpecTimed is execute_plan      *)
(* under a clock; SpecRouted is RequestRouter._handle_task, from the       *)
(* planner's reading of the backend's answer to the Response; SpecRegistry *)
(* is the ModuleRegistry under register, unregister and its reads;         *)
(* SpecValidate is Module.validate_parameters on its own; FairSpec is      *)
(* execute_plan called on an idle system, its steps taken fairly;          *)
(* SpecSwitched is execute_plan after providers have been switched off.    *)
(*                                                                         *)
(* Strings that the code splits are sequences of tokens, "." being the     *)
(* separator token: "memory_tools.log_message" is                          *)
(* <<"memory_tools", ".", "log_message">>.                                 *)
(***************************************************************************)
EXTENDS Integers, Sequences, FiniteSets, TLC

VARIABLES
    plan,                 \* the TaskPlan handed to execute_plan
    require_confirmation, \* execute_plan's second argument
    confirm_callback,     \* what the caller would answer when asked to confirm
    MODULE_REGISTRY,      \* ModuleRegistry._modules: name -> provider
    pc,                   \* "loop", "await" (inside await module.run), "done"
    idx,                  \* number of group entries the loops have left behind
    results, errors, completed, failed,   \* the locals of execute_plan
    execution_result,     \* the ExecutionResult returned, None before
    log,                  \* history: the outcome of every entry visited
    calls,                \* history: entries for which Module.run was entered
    effects,              \* history: entries whose capability implementation ran
    elapsed,              \* seconds since execute_plan read start = datetime.now()
    llm_response,         \* what backend.chat returned to the planner, None
                          \* when execute_plan is called directly
    response,             \* the Response of RequestRouter._handle_task, None before
    module_order,         \* the insertion order of the keys of _modules
    warnings,             \* the names logger.warning was called for by register
    history,              \* history: the register and unregister calls made
    query,                \* the last read of the registry, None before
    answer                \* what that read returned

\* what execute_plan neither reads nor writes
others == <<elapsed, llm_response, response, module_order, warnings, history,
            query, answer>>

vars == <<plan, require_confirmation, confirm_callback, MODULE_REGISTRY, pc, idx,
          results, errors, completed, failed, execution_result, log, calls, effects,
          others>>

----------------------------------------------------------------------------
(* Bounds of the model *)

MaxSteps == 2
MaxGroups == 2
MaxGroupLen == 2

None == "None"      \* the default of a parameter that declares none
NoError == <<>>     \* error texts are token sequences, <<>> being no error
SEP == "."

----------------------------------------------------------------------------
(* badi/modules: parameter and capability descriptors, the two providers *)

ModuleParameter(n, req, dflt) == [name |-> n, required |-> req, default |-> dflt]

ModuleCapability(n, ps) == [name |-> n, parameters |-> ps]

MemoryToolsCapabilities ==
    << ModuleCapability(<<"get_preference">>,
          << ModuleParameter("key", TRUE, None),
             ModuleParameter("user_id", TRUE, None) >>),
       ModuleCapability(<<"log_message">>,
          << ModuleParameter("message", TRUE, None) >>) >>

SystemControlCapabilities ==
    << ModuleCapability(<<"scan_directory">>,
          << ModuleParameter("path", TRUE, None),
             ModuleParameter("recursive", FALSE, "False"),
             ModuleParameter("file_types", FALSE, None) >>),
       ModuleCapability(<<"organize_by_type">>,
          << ModuleParameter("source_path", TRUE, None),
             ModuleParameter("create_folders", FALSE, "True") >>) >>

\* the class attributes of the two providers
MemoryToolsModule ==
    [name |-> <<"memory_tools">>,
     requires_confirmation |-> FALSE, is_read_only |-> FALSE,
     capabilities |-> MemoryToolsCapabilities]

SystemControlModule ==
    [name |-> <<"system_control">>,
     requires_confirmation |-> TRUE, is_read_only |-> FALSE,
     capabilities |-> SystemControlCapabilities]

\* a provider instance is its class, its one instance attribute, enabled
\* (Module.__init__ sets self.enabled = True), and its identity: the serial
\* number of the instance among those of its class
NewModule(class, serial) == [class |-> class, enabled |-> TRUE, serial |-> serial]

Class(instance) ==
    IF instance.class = "MemoryToolsModule" THEN MemoryToolsModule
    ELSE SystemControlModule

\* the registry after import of badi.modules: both providers registered
\* under their class's name
InitialRegistry ==
    (<<"system_control">> :> NewModule("SystemControlModule", 0)) @@
    (<<"memory_tools">> :> NewModule("MemoryToolsModule", 0))

\* badi/modules/__init__.py imports system_control before memory_tools
InitialOrder == << <<"system_control">>, <<"memory_tools">> >>

\* ModuleRegistry.get: self._modules.get(name); an Optional is a sequence of
\* at most one element, <<>> being None
\* a bug: a provider that is not enabled is not found
RegistryGetEnabled(reg, name) ==
    IF name \in DOMAIN reg /\ reg[name].enabled THEN <<reg[name]>> ELSE <<>>

RegistryGet(reg, name) == IF name \in DOMAIN reg THEN <<reg[name]>> ELSE <<>>

\* a bug: the lookup takes the provider out of the registry (dict.pop)
RegistryAfterPop(reg, name) == [n \in DOMAIN reg \ {name} |-> reg[n]]

\* the registry once get has answered: self._modules.get(name) leaves the
\* dict as it was
RegistryAfterGet(reg, name) == reg

----------------------------------------------------------------------------
(* str.split(".", 1) *)

HasSep(s) == \E i \in 1..Len(s) : s[i] = SEP

FirstSep(s) == CHOOSE i \in 1..Len(s) : s[i] = SEP /\ \A j \in 1..(i-1) : s[j] # SEP

\* a bug: a string without separator is split like str.partition, the
\* second part empty
Split1Partition(s) ==
    IF HasSep(s)
    THEN << SubSeq(s, 1, FirstSep(s) - 1), SubSeq(s, FirstSep(s) + 1, Len(s)) >>
    ELSE << s, <<>> >>

Split1(s) ==
    IF HasSep(s)
    THEN << SubSeq(s, 1, FirstSep(s) - 1), SubSeq(s, FirstSep(s) + 1, Len(s)) >>
    ELSE << s >>

----------------------------------------------------------------------------
(* Module.validate_parameters and Module.run *)

\* the search for cap_def: the first capability of that name, <<>> if none
FindCapability(module, capability) ==
    IF \E i \in 1..Len(module.capabilities) : module.capabilities[i].name = capability
    THEN << module.capabilities[
               CHOOSE i \in 1..Len(module.capabilities) :
                   /\ module.capabilities[i].name = capability
                   /\ \A j \in 1..(i-1) : module.capabilities[j].name # capability] >>
    ELSE <<>>

\* a bug: a required parameter that is absent is let through
CheckRequiredLenient(parameters, i, params) ==
    [valid |-> TRUE, error |-> NoError, params |-> params]

\* the loop over cap_def.parameters, from parameter i on, with the bag so far
RECURSIVE CheckRequired(_, _, _)
CheckRequired(parameters, i, params) ==
    IF i > Len(parameters)
    THEN [valid |-> TRUE, error |-> NoError, params |-> params]
    ELSE LET param == parameters[i] IN
         IF param.required /\ param.name \notin DOMAIN params
         THEN IF param.default = None
              THEN [valid |-> FALSE,
                    error |-> <<"Missing required parameter", param.name>>,
                    params |-> params]
              ELSE CheckRequired(parameters, i + 1,
                                 (param.name :> param.default) @@ params)
         ELSE CheckRequired(parameters, i + 1, params)

validate_parameters(module, capability, params) ==
    LET cap_def == FindCapability(module, capability) IN
    IF cap_def = <<>>
    THEN [valid |-> FALSE, error |-> <<"Unknown capability">>, params |-> params]
    ELSE CheckRequired(cap_def[1].parameters, 1, params)

\* what the implementation behind a capability can answer once it is reached:
\* _log_message always succeeds, the others also report failures
\* ("Directory not found", "Preference not found", "Invalid directory")
ImplementationOutcomes(capability) ==
    IF capability = <<"log_message">> THEN {TRUE} ELSE {TRUE, FALSE}

\* the keyword arguments the implementation's signature accepts, and those
\* it has no default for (the declared required ones, in both providers)
AcceptedKeywords(cap_def) ==
    {cap_def.parameters[i].name : i \in 1..Len(cap_def.parameters)}

PositionalKeywords(cap_def) ==
    {cap_def.parameters[i].name :
        i \in {j \in 1..Len(cap_def.parameters) : cap_def.parameters[j].required}}

\* self._<capability>(**kwargs) inside run's try: a bag the signature does
\* not fit raises TypeError, which run turns into a failure
SignatureFits(cap_def, kwargs) ==
    /\ DOMAIN kwargs \subseteq AcceptedKeywords(cap_def)
    /\ PositionalKeywords(cap_def) \subseteq DOMAIN kwargs

\* Module.run of both providers: the set of results it may return, each with
\* the history flag "effect" (the capability's implementation was reached)
run(module, capability, kwargs) ==
    LET v == validate_parameters(module, capability, kwargs) IN
    IF ~v.valid
    THEN {[success |-> FALSE, error |-> v.error, effect |-> FALSE]}
    ELSE IF ~SignatureFits(FindCapability(module, capability)[1], v.params)
         THEN {[success |-> FALSE, error |-> <<"TypeError">>, effect |-> FALSE]}
         ELSE {[success |-> ok,
                error |-> IF ok THEN NoError ELSE <<"capability failed">>,
                effect |-> TRUE] : ok \in ImplementationOutcomes(capability)}

----------------------------------------------------------------------------
(* The plans execute_plan is given: any TaskPlan that pydantic accepts *)

StepIds == 1..MaxSteps

NoParams == [n \in {} |-> "v"]

\* the steps tried (module string, parameter bag, depends_on): a plain call,
\* the same depending on step 1, a bag that lacks the required parameter, a
\* provider that asks for confirmation, an unregistered provider, a module
\* string without separator, and a bag whose key collides with run's own
\* first argument
StepTemplates ==
    { [module |-> <<"memory_tools", SEP, "log_message">>,
       params |-> [message |-> "hi"], depends_on |-> <<>>],
      [module |-> <<"memory_tools", SEP, "log_message">>,
       params |-> [message |-> "hi"], depends_on |-> <<1>>],
      [module |-> <<"memory_tools", SEP, "log_message">>,
       params |-> NoParams, depends_on |-> <<>>],
      [module |-> <<"system_control", SEP, "scan_directory">>,
       params |-> [path |-> "p"], depends_on |-> <<>>],
      [module |-> <<"foo", SEP, "bar">>,
       params |-> NoParams, depends_on |-> <<>>],
      [module |-> <<"memory_tools">>,
       params |-> NoParams, depends_on |-> <<>>],
      [module |-> <<"memory_tools", SEP, "log_message">>,
       params |-> [capability |-> "x"], depends_on |-> <<>>] }

PlanStep ==
    { [id |-> i, module |-> t.module, params |-> t.params, depends_on |-> t.depends_on] :
         i \in StepIds, t \in StepTemplates }

SeqsUpTo(S, n) == UNION { [1..m -> S] : m \in 0..n }

TaskPlan ==
    { [steps |-> ss, parallel_groups |-> gs] :
         ss \in SeqsUpTo(PlanStep, MaxSteps),
         gs \in SeqsUpTo(SeqsUpTo(StepIds, MaxGroupLen), MaxGroups) }

\* the router calls with require_confirmation = False and there is nowhere to
\* pass a callback; a direct caller gets the default True
Callers ==
    { [require_confirmation |-> FALSE, confirm_callback |-> "none"],
      [require_confirmation |-> TRUE, confirm_callback |-> "none"],
      [require_confirmation |-> TRUE, confirm_callback |-> "decline"] }

----------------------------------------------------------------------------
(* TaskExecutor.execute_plan *)

\* the entries <<group index, index in group>> in the order the two nested
\* for loops visit them
RECURSIVE EntryOrderFrom(_, _)
EntryOrderFrom(groups, g) ==
    IF g > Len(groups) THEN <<>>
    ELSE [k \in 1..Len(groups[g]) |-> <<g, k>>] \o EntryOrderFrom(groups, g + 1)

\* a bug: the groups are walked from the last to the first
RECURSIVE EntryOrderBackFrom(_, _)
EntryOrderBackFrom(groups, g) ==
    IF g < 1 THEN <<>>
    ELSE [k \in 1..Len(groups[g]) |-> <<g, k>>] \o EntryOrderBackFrom(groups, g - 1)

EntryOrderReversed(groups) == EntryOrderBackFrom(groups, Len(groups))

EntryOrder(groups) == EntryOrderFrom(groups, 1)

\* a bug: the last step with that id is taken
FindStepLast(steps, step_id) ==
    IF \E i \in 1..Len(steps) : steps[i].id = step_id
    THEN CHOOSE i \in 1..Len(steps) :
            steps[i].id = step_id /\ \A j \in (i+1)..Len(steps) : steps[j].id # step_id
    ELSE 0

\* next((s for s in plan.steps if s.id == step_id), None): the index of the
\* first step with that id, 0 for None
FindStep(steps, step_id) ==
    IF \E i \in 1..Len(steps) : steps[i].id = step_id
    THEN CHOOSE i \in 1..Len(steps) :
            steps[i].id = step_id /\ \A j \in 1..(i-1) : steps[j].id # step_id
    ELSE 0

Order == EntryOrder(plan.parallel_groups)
Entry == Order[idx + 1]
EntryId == plan.parallel_groups[Entry[1]][Entry[2]]
StepIndex == FindStep(plan.steps, EntryId)
Step == plan.steps[StepIndex]
Parts == Split1(Step.module)
Module == RegistryGet(MODULE_REGISTRY, Parts[1])

\* run(self, capability, **kwargs): a bag holding one of run's own parameter
\* names makes the call itself raise TypeError
CallRaises(params) == "capability" \in DOMAIN params \/ "self" \in DOMAIN params

Logged(kind) == Append(log, [pos |-> Entry, step |-> StepIndex, kind |-> kind])

Init ==
    /\ plan \in TaskPlan
    /\ \E c \in Callers :
          /\ require_confirmation = c.require_confirmation
          /\ confirm_callback = c.confirm_callback
    /\ MODULE_REGISTRY = InitialRegistry
    /\ pc = "loop"
    /\ idx = 0
    /\ results = <<>>
    /\ errors = <<>>
    /\ completed = 0
    /\ failed = 0
    /\ execution_result = <<>>
    /\ log = <<>>
    /\ calls = <<>>
    /\ effects = <<>>
    /\ elapsed = 0
    /\ llm_response = <<>>
    /\ response = <<>>
    /\ module_order = InitialOrder
    /\ warnings = <<>>
    /\ history = <<>>
    /\ query = <<>>
    /\ answer = <<>>

AtEntry == pc = "loop" /\ idx < Len(Order)

\* a bug: next(...) without its default raises StopIteration, outside the try
SkipEntryRaises ==
    /\ AtEntry
    /\ StepIndex = 0
    /\ pc' = "raised"
    /\ log' = Logged("no_step")
    /\ UNCHANGED <<others, plan, require_confirmation, confirm_callback, MODULE_REGISTRY, idx,
                   results, errors, completed, failed, execution_result, calls, effects>>

\* if not step: continue
SkipEntry ==
    /\ AtEntry
    /\ StepIndex = 0
    /\ idx' = idx + 1
    /\ log' = Logged("no_step")
    /\ UNCHANGED <<others, plan, require_confirmation, confirm_callback, MODULE_REGISTRY, pc,
                   results, errors, completed, failed, execution_result, calls, effects>>

\* a bug: the handler lets the fault out of execute_plan
ExceptBranchReraises(kind, text) ==
    /\ pc' = "raised"
    /\ log' = Logged(kind)
    /\ UNCHANGED <<others, plan, require_confirmation, confirm_callback, idx,
                   results, errors, completed, failed, execution_result, calls, effects>>

\* except Exception as e: errors.append(...); failed += 1
ExceptBranch(kind, text) ==
    /\ errors' = Append(errors, [step_id |-> Step.id, error |-> text])
    /\ failed' = failed + 1
    /\ idx' = idx + 1
    /\ pc' = "loop"
    /\ log' = Logged(kind)
    /\ UNCHANGED <<others, plan, require_confirmation, confirm_callback,
                   results, completed, execution_result, calls, effects>>

\* module_name, capability = step.module.split(".", 1) with no separator:
\* the unpacking raises ValueError
SplitFault ==
    /\ AtEntry
    /\ StepIndex # 0
    /\ Len(Parts) # 2
    /\ UNCHANGED MODULE_REGISTRY
    /\ ExceptBranch("split_fault", <<"ValueError">>)

\* if module: is false, the body of the try is over
UnknownModule ==
    /\ AtEntry
    /\ StepIndex # 0
    /\ Len(Parts) = 2
    /\ Module = <<>>
    /\ MODULE_REGISTRY' = RegistryAfterGet(MODULE_REGISTRY, Parts[1])
    /\ idx' = idx + 1
    /\ log' = Logged("no_module")
    /\ UNCHANGED <<others, plan, require_confirmation, confirm_callback, pc,
                   results, errors, completed, failed, execution_result, calls, effects>>

\* module.run(capability, **step.params) raises before run is entered
CallFault ==
    /\ AtEntry
    /\ StepIndex # 0
    /\ Len(Parts) = 2
    /\ Module # <<>>
    /\ CallRaises(Step.params)
    /\ MODULE_REGISTRY' = RegistryAfterGet(MODULE_REGISTRY, Parts[1])
    /\ ExceptBranch("call_fault", <<"TypeError">>)

\* result = await module.run(capability, **step.params): run is entered
CallRun ==
    /\ AtEntry
    /\ StepIndex # 0
    /\ Len(Parts) = 2
    /\ Module # <<>>
    /\ ~CallRaises(Step.params)
    /\ MODULE_REGISTRY' = RegistryAfterGet(MODULE_REGISTRY, Parts[1])
    /\ pc' = "await"
    /\ calls' = Append(calls, Entry)
    /\ UNCHANGED <<others, plan, require_confirmation, confirm_callback, idx,
                   results, errors, completed, failed, execution_result, log, effects>>

\* a bug: a result without success abandons the entries that remain
RunReturnsBreaksOnFailure ==
    /\ pc = "await"
    /\ \E r \in run(Class(Module[1]), Parts[2], Step.params) :
          /\ results' = Append(results,
                 [step_id |-> Step.id, success |-> r.success, error |-> r.error])
          /\ completed' = completed + (IF r.success THEN 1 ELSE 0)
          /\ failed' = failed + (IF r.success THEN 0 ELSE 1)
          /\ effects' = IF r.effect THEN Append(effects, Entry) ELSE effects
          /\ log' = Logged(IF r.success THEN "returned_ok" ELSE "returned_fail")
          /\ idx' = IF r.success THEN idx + 1 ELSE Len(Order)
    /\ pc' = "loop"
    /\ UNCHANGED <<others, plan, require_confirmation, confirm_callback, MODULE_REGISTRY,
                   errors, execution_result, calls>>

\* a bug: the step id is stored in the step's own parameter bag
StepAfterResultStamped(step, result) ==
    [step EXCEPT !.params = ("step_id" :> "id") @@ @]

\* the step once run has returned: run was handed a dict of its own, built
\* from step.params by the call, and result["step_id"] = step.id writes into
\* the dict run returned, so the step is as it was
StepAfterResult(step, result) == step

\* run returns; result["step_id"] = step.id; results.append(result); counters
RunReturns ==
    /\ pc = "await"
    /\ \E r \in run(Class(Module[1]), Parts[2], Step.params) :
          /\ plan' = [plan EXCEPT !.steps[StepIndex] = StepAfterResult(@, r)]
          /\ results' = Append(results,
                 [step_id |-> Step.id, success |-> r.success, error |-> r.error])
          /\ completed' = completed + (IF r.success THEN 1 ELSE 0)
          /\ failed' = failed + (IF r.success THEN 0 ELSE 1)
          /\ effects' = IF r.effect THEN Append(effects, Entry) ELSE effects
          /\ log' = Logged(IF r.success THEN "returned_ok" ELSE "returned_fail")
    /\ idx' = idx + 1
    /\ pc' = "loop"
    /\ UNCHANGED <<others, require_confirmation, confirm_callback, MODULE_REGISTRY,
                   errors, execution_result, calls>>

\* a bug: success reports that some step completed
ExecutionResultAnyCompleted(n_completed, n_failed, rs, es) ==
    [success |-> (n_completed > 0), steps_completed |-> n_completed,
     steps_failed |-> n_failed, results |-> rs, errors |-> es]

\* ExecutionResult(success=failed == 0, steps_completed=completed,
\*                 steps_failed=failed, results=results, errors=errors, ...)
ExecutionResult(n_completed, n_failed, rs, es) ==
    [success |-> (n_failed = 0), steps_completed |-> n_completed,
     steps_failed |-> n_failed, results |-> rs, errors |-> es]

\* a bug: every result is counted as completed
ReturnCountsResults ==
    /\ pc = "loop"
    /\ idx = Len(Order)
    /\ pc' = "done"
    /\ execution_result' = << ExecutionResult(Len(results), failed, results, errors) >>
    /\ UNCHANGED <<others, plan, require_confirmation, confirm_callback, MODULE_REGISTRY, idx,
                   results, errors, completed, failed, log, calls, effects>>

\* return ExecutionResult(...)
Return ==
    /\ pc = "loop"
    /\ idx = Len(Order)
    /\ pc' = "done"
    /\ execution_result' = << ExecutionResult(completed, failed, results, errors) >>
    /\ UNCHANGED <<others, plan, require_confirmation, confirm_callback, MODULE_REGISTRY, idx,
                   results, errors, completed, failed, log, calls, effects>>

Next ==
    \/ SkipEntry
    \/ SplitFault
    \/ UnknownModule
    \/ CallFault
    \/ CallRun
    \/ RunReturns
    \/ Return

Spec == Init /\ [][Next]_vars

\* the shapes of groups tried: none, one group after the other, one group of
\* both, an entry that comes twice, an empty group
GroupShapes ==
    { <<>>, << <<1>>, <<2>> >>, << <<1, 2>> >>, << <<2, 1>>, <<1>> >>,
      << <<>>, <<1, 1>> >> }

\* plans of steps numbered in order, with groups of these shapes
NumberedPlans ==
    { p \in TaskPlan :
         /\ p.parallel_groups \in GroupShapes
         /\ \A i \in DOMAIN p.steps : p.steps[i].id = i /\ p.steps[i].depends_on = <<>> }

\* execute_plan(plan) is called on an idle system
Enter(p) ==
    /\ pc = "idle"
    /\ plan' = p
    /\ pc' = "loop"
    /\ UNCHANGED <<others, require_confirmation, confirm_callback, MODULE_REGISTRY, idx,
                   results, errors, completed, failed, execution_result, log, calls,
                   effects>>

InitIdle ==
    /\ plan = [steps |-> <<>>, parallel_groups |-> <<>>]
    /\ require_confirmation = TRUE
    /\ confirm_callback = "none"
    /\ MODULE_REGISTRY = InitialRegistry
    /\ pc = "idle"
    /\ idx = 0
    /\ results = <<>>
    /\ errors = <<>>
    /\ completed = 0
    /\ failed = 0
    /\ execution_result = <<>>
    /\ log = <<>>
    /\ calls = <<>>
    /\ effects = <<>>
    /\ elapsed = 0
    /\ llm_response = <<>>
    /\ response = <<>>
    /\ module_order = InitialOrder
    /\ warnings = <<>>
    /\ history = <<>>
    /\ query = <<>>
    /\ answer = <<>>

NextCalled ==
    \/ \E p \in NumberedPlans : Enter(p)
    \/ SkipEntry
    \/ SplitFault
    \/ UnknownModule
    \/ CallFault
    \/ CallRun
    \/ RunReturns
    \/ Return

\* the event loop goes on running the coroutine, and every provider
\* invocation awaited returns in the end
FairSpec == InitIdle /\ [][NextCalled]_vars /\ WF_vars(Next)

----------------------------------------------------------------------------
(* execute_plan under a clock *)

\* Settings.execution_timeout, in seconds
execution_timeout == 300

\* the clock is read in steps of TickSeconds, up to MaxElapsed
TickSeconds == 200
MaxElapsed == 400

\* the locals and the position of execute_plan, and its histories
executor == <<pc, idx, results, errors, completed, failed, execution_result,
              log, calls, effects>>

\* time passes while execute_plan is between start = datetime.now() and its
\* return; nothing in execute_plan looks at the clock before the return
Tick ==
    /\ pc \in {"loop", "await"}
    /\ elapsed + TickSeconds <= MaxElapsed
    /\ elapsed' = elapsed + TickSeconds
    /\ UNCHANGED <<plan, require_confirmation, confirm_callback, MODULE_REGISTRY,
                   executor, llm_response, response, module_order, warnings,
                   history, query, answer>>

\* plans of steps numbered in order, run one group after the other
TimedPlans ==
    { p \in TaskPlan :
         /\ \A i \in DOMAIN p.steps : p.steps[i].id = i /\ p.steps[i].depends_on = <<>>
         /\ p.parallel_groups = << <<1>>, <<2>> >> }

InitTimed ==
    /\ plan \in TimedPlans
    /\ require_confirmation = TRUE
    /\ confirm_callback = "none"
    /\ MODULE_REGISTRY = InitialRegistry
    /\ pc = "loop"
    /\ idx = 0
    /\ results = <<>>
    /\ errors = <<>>
    /\ completed = 0
    /\ failed = 0
    /\ execution_result = <<>>
    /\ log = <<>>
    /\ calls = <<>>
    /\ effects = <<>>
    /\ elapsed = 0
    /\ llm_response = <<>>
    /\ response = <<>>
    /\ module_order = InitialOrder
    /\ warnings = <<>>
    /\ history = <<>>
    /\ query = <<>>
    /\ answer = <<>>

NextTimed ==
    \/ SkipEntry
    \/ SplitFault
    \/ UnknownModule
    \/ CallFault
    \/ CallRun
    \/ RunReturns
    \/ Return
    \/ Tick

SpecTimed == InitTimed /\ [][NextTimed]_vars

----------------------------------------------------------------------------
(* RequestRouter._handle_task: create_plan, execute_plan, Response *)

\* what backend.chat gives the planner: text that is no JSON, JSON that
\* TaskPlan(**data) rejects, JSON of a plan, or an exception of the backend
Shapes == {"not_json", "wrong_shape", "plan", "raised"}

NoPlan == [steps |-> <<>>, parallel_groups |-> <<>>]

LlmResponses ==
    { [shape |-> sh, data |-> NoPlan] : sh \in Shapes \ {"plan"} }
    \cup { [shape |-> "plan", data |-> p] : p \in NumberedPlans }

\* TaskPlan(goal=goal, steps=[PlanStep(id=1, module="memory_tools.log_message",
\* description="Plan failed", params={"message": "Planning failed"})])
FallbackPlan ==
    [steps |-> << [id |-> 1, module |-> <<"memory_tools", SEP, "log_message">>,
                   params |-> [message |-> "Planning failed"],
                   depends_on |-> <<>>] >>,
     parallel_groups |-> <<>>]

registry == <<MODULE_REGISTRY, module_order, warnings, history, query, answer>>

\* data = json.loads(...); return TaskPlan(**data)
CreatePlan ==
    /\ pc = "plan"
    /\ llm_response[1].shape = "plan"
    /\ plan' = llm_response[1].data
    /\ pc' = "loop"
    /\ UNCHANGED <<require_confirmation, confirm_callback, idx, results, errors,
                   completed, failed, execution_result, log, calls, effects,
                   elapsed, llm_response, response, registry>>

\* except: return TaskPlan(goal=goal, steps=[PlanStep(...)])
PlanFallback ==
    /\ pc = "plan"
    /\ llm_response[1].shape \in {"not_json", "wrong_shape"}
    /\ plan' = FallbackPlan
    /\ pc' = "loop"
    /\ UNCHANGED <<require_confirmation, confirm_callback, idx, results, errors,
                   completed, failed, execution_result, log, calls, effects,
                   elapsed, llm_response, response, registry>>

\* backend.chat raises outside the planner's try: the router's
\* except Exception returns Response(text="Task failed: ...", success=False)
BackendRaises ==
    /\ pc = "plan"
    /\ llm_response[1].shape = "raised"
    /\ response' = << [text |-> "Task failed", n |-> 0, success |-> FALSE] >>
    /\ pc' = "responded"
    /\ UNCHANGED <<plan, require_confirmation, confirm_callback, idx, results, errors,
                   completed, failed, execution_result, log, calls, effects,
                   elapsed, llm_response, registry>>

\* a bug: a result with no step completed is reported as a failure
RespondNothingDone ==
    /\ pc = "done"
    /\ llm_response # <<>>
    /\ response' =
          << IF execution_result[1].success /\ execution_result[1].steps_completed > 0
             THEN [text |-> "Task completed", n |-> execution_result[1].steps_completed,
                   success |-> TRUE]
             ELSE [text |-> "Task partially completed",
                   n |-> execution_result[1].steps_failed, success |-> FALSE] >>
    /\ pc' = "responded"
    /\ UNCHANGED <<plan, require_confirmation, confirm_callback, idx, results, errors,
                   completed, failed, execution_result, log, calls, effects,
                   elapsed, llm_response, registry>>

\* text = "Task completed. N steps executed." if result.success else
\* "Task partially completed. N failed."; Response(text, success=result.success)
Respond ==
    /\ pc = "done"
    /\ llm_response # <<>>
    /\ response' =
          << IF execution_result[1].success
             THEN [text |-> "Task completed", n |-> execution_result[1].steps_completed,
                   success |-> TRUE]
             ELSE [text |-> "Task partially completed",
                   n |-> execution_result[1].steps_failed, success |-> FALSE] >>
    /\ pc' = "responded"
    /\ UNCHANGED <<plan, require_confirmation, confirm_callback, idx, results, errors,
                   completed, failed, execution_result, log, calls, effects,
                   elapsed, llm_response, registry>>

InitRouted ==
    /\ llm_response \in { <<r>> : r \in LlmResponses }
    /\ plan = NoPlan
    /\ require_confirmation = FALSE
    /\ confirm_callback = "none"
    /\ MODULE_REGISTRY = InitialRegistry
    /\ pc = "plan"
    /\ idx = 0
    /\ results = <<>>
    /\ errors = <<>>
    /\ completed = 0
    /\ failed = 0
    /\ execution_result = <<>>
    /\ log = <<>>
    /\ calls = <<>>
    /\ effects = <<>>
    /\ elapsed = 0
    /\ response = <<>>
    /\ module_order = InitialOrder
    /\ warnings = <<>>
    /\ history = <<>>
    /\ query = <<>>
    /\ answer = <<>>

NextRouted ==
    \/ CreatePlan
    \/ PlanFallback
    \/ BackendRaises
    \/ SkipEntry
    \/ SplitFault
    \/ UnknownModule
    \/ CallFault
    \/ CallRun
    \/ RunReturns
    \/ Return
    \/ Respond

SpecRouted == InitRouted /\ [][NextRouted]_vars

----------------------------------------------------------------------------
(* ModuleRegistry: register, unregister, and its reads *)

\* at most MaxOps calls change the registry; the names asked for are at most
\* MaxNameLen tokens long
MaxOps == 2
MaxNameLen == 3

ModuleClasses == {"MemoryToolsModule", "SystemControlModule"}
ModuleNames == { <<"memory_tools">>, <<"system_control">>, <<"foo">> }
Tokens == {"memory_tools", "system_control", "log_message", "foo", SEP}
FullNames == SeqsUpTo(Tokens, MaxNameLen)

\* del d[name], in the order of the keys
RECURSIVE Without(_, _)
Without(order, name) ==
    IF order = <<>> THEN <<>>
    ELSE IF Head(order) = name THEN Without(Tail(order), name)
    ELSE <<Head(order)>> \o Without(Tail(order), name)

Called(op, name, serial, flag) ==
    Append(history, [op |-> op, name |-> name, serial |-> serial, flag |-> flag])

\* what is left alone by the calls on the registry
outside == <<plan, require_confirmation, confirm_callback, executor, elapsed,
             llm_response, response>>

\* a bug: a name that is registered keeps its provider
RegisterKeepsFirst(class) ==
    /\ pc = "idle"
    /\ Len(history) < MaxOps
    /\ LET module == NewModule(class, Len(history) + 1)
           name == Class(module).name
       IN /\ warnings' = IF name \in DOMAIN MODULE_REGISTRY
                         THEN Append(warnings, name) ELSE warnings
          /\ MODULE_REGISTRY' = MODULE_REGISTRY @@ (name :> module)
          /\ module_order' = IF name \in DOMAIN MODULE_REGISTRY
                             THEN module_order ELSE Append(module_order, name)
          /\ history' = Called("register", name, module.serial, TRUE)
    /\ query' = <<>>
    /\ answer' = <<>>
    /\ UNCHANGED outside

\* ModuleRegistry.register(module), module a new instance of class
Register(class) ==
    /\ pc = "idle"
    /\ Len(history) < MaxOps
    /\ LET module == NewModule(class, Len(history) + 1)
           name == Class(module).name
       IN /\ warnings' = IF name \in DOMAIN MODULE_REGISTRY
                         THEN Append(warnings, name) ELSE warnings
          /\ MODULE_REGISTRY' = (name :> module) @@ MODULE_REGISTRY
          /\ module_order' = IF name \in DOMAIN MODULE_REGISTRY
                             THEN module_order ELSE Append(module_order, name)
          /\ history' = Called("register", name, module.serial, TRUE)
    /\ query' = <<>>
    /\ answer' = <<>>
    /\ UNCHANGED outside

\* ModuleRegistry.unregister(name)
Unregister(name) ==
    /\ pc = "idle"
    /\ Len(history) < MaxOps
    /\ MODULE_REGISTRY' =
          [n \in DOMAIN MODULE_REGISTRY \ {name} |-> MODULE_REGISTRY[n]]
    /\ module_order' = Without(module_order, name)
    /\ history' = Called("unregister", name, 0, FALSE)
    /\ query' = <<>>
    /\ answer' = <<>>
    /\ UNCHANGED <<outside, warnings>>

\* module.enabled = flag on a registered provider
SetEnabled(name, flag) ==
    /\ pc = "idle"
    /\ Len(history) < MaxOps
    /\ name \in DOMAIN MODULE_REGISTRY
    /\ MODULE_REGISTRY' = [MODULE_REGISTRY EXCEPT ![name].enabled = flag]
    /\ history' = Called("set_enabled", name, MODULE_REGISTRY[name].serial, flag)
    /\ query' = <<>>
    /\ answer' = <<>>
    /\ UNCHANGED <<outside, warnings, module_order>>

\* Module.get_capability_names: [cap.name for cap in self.capabilities]
get_capability_names(module) ==
    { module.capabilities[i].name : i \in 1..Len(module.capabilities) }

\* a bug: any capability name is taken for one of the provider
get_capabilityAnyName(reg, full_name) ==
    IF ~HasSep(full_name) THEN <<>>
    ELSE LET module == RegistryGet(reg, Split1(full_name)[1])
         IN IF module # <<>>
            THEN << [module |-> module[1], capability_name |-> Split1(full_name)[2]] >>
            ELSE <<>>

\* ModuleRegistry.get_capability(full_name): (module, capability_name) or None
get_capability(reg, full_name) ==
    IF ~HasSep(full_name) THEN <<>>
    ELSE LET module_name == Split1(full_name)[1]
             capability_name == Split1(full_name)[2]
             module == RegistryGet(reg, module_name)
         IN IF /\ module # <<>>
               /\ capability_name \in get_capability_names(Class(module[1]))
            THEN << [module |-> module[1], capability_name |-> capability_name] >>
            ELSE <<>>

\* a bug: the providers that are not enabled are kept
get_enabledAll(reg, order) == order

\* ModuleRegistry.get_enabled: the names of the enabled providers, in the
\* order of the keys
RECURSIVE get_enabled(_, _)
get_enabled(reg, order) ==
    IF order = <<>> THEN <<>>
    ELSE (IF reg[Head(order)].enabled THEN <<Head(order)>> ELSE <<>>)
         \o get_enabled(reg, Tail(order))

\* the entries of one provider, one for each of its capabilities
CapabilityEntries(module_name, module) ==
    [k \in 1..Len(module.capabilities) |->
        [module |-> module_name,
         full_name |-> module_name \o <<SEP>> \o module.capabilities[k].name,
         name |-> module.capabilities[k].name,
         requires_confirmation |-> module.requires_confirmation,
         is_read_only |-> module.is_read_only]]

RECURSIVE ListCapabilities(_, _)
ListCapabilities(reg, names) ==
    IF names = <<>> THEN <<>>
    ELSE CapabilityEntries(Head(names), Class(reg[Head(names)]))
         \o ListCapabilities(reg, Tail(names))

\* ModuleRegistry.get_all_capabilities
get_all_capabilities(reg, order) == ListCapabilities(reg, get_enabled(reg, order))

\* MODULE_REGISTRY.get(name)
Get(name) ==
    /\ pc = "idle"
    /\ query' = << [op |-> "get", arg |-> name] >>
    /\ answer' = RegistryGet(MODULE_REGISTRY, name)
    /\ UNCHANGED <<outside, MODULE_REGISTRY, module_order, warnings, history>>

\* MODULE_REGISTRY.get_capability(full_name)
GetCapability(full_name) ==
    /\ pc = "idle"
    /\ query' = << [op |-> "get_capability", arg |-> full_name] >>
    /\ answer' = get_capability(MODULE_REGISTRY, full_name)
    /\ UNCHANGED <<outside, MODULE_REGISTRY, module_order, warnings, history>>

\* MODULE_REGISTRY.get_all_capabilities()
GetAllCapabilities ==
    /\ pc = "idle"
    /\ query' = << [op |-> "get_all_capabilities", arg |-> <<>>] >>
    /\ answer' = get_all_capabilities(MODULE_REGISTRY, module_order)
    /\ UNCHANGED <<outside, MODULE_REGISTRY, module_order, warnings, history>>

InitRegistry ==
    /\ MODULE_REGISTRY = InitialRegistry
    /\ module_order = InitialOrder
    /\ warnings = <<>>
    /\ history = <<>>
    /\ query = <<>>
    /\ answer = <<>>
    /\ plan = NoPlan
    /\ require_confirmation = TRUE
    /\ confirm_callback = "none"
    /\ pc = "idle"
    /\ idx = 0
    /\ results = <<>>
    /\ errors = <<>>
    /\ completed = 0
    /\ failed = 0
    /\ execution_result = <<>>
    /\ log = <<>>
    /\ calls = <<>>
    /\ effects = <<>>
    /\ elapsed = 0
    /\ llm_response = <<>>
    /\ response = <<>>

NextRegistry ==
    \/ \E class \in ModuleClasses : Register(class)
    \/ \E name \in ModuleNames : Unregister(name)
    \/ \E name \in ModuleNames, flag \in BOOLEAN : SetEnabled(name, flag)
    \/ \E name \in ModuleNames : Get(name)
    \/ \E full_name \in FullNames : GetCapability(full_name)
    \/ GetAllCapabilities

SpecRegistry == InitRegistry /\ [][NextRegistry]_vars

----------------------------------------------------------------------------
(* execute_plan on a registry whose providers have been switched off *)

\* ModuleRegistry.list_enabled_modules
list_enabled_modules(reg, order) == get_enabled(reg, order)

\* MODULE_REGISTRY.list_enabled_modules()
ListEnabledModules ==
    /\ pc = "idle"
    /\ query' = << [op |-> "list_enabled_modules", arg |-> <<>>] >>
    /\ answer' = list_enabled_modules(MODULE_REGISTRY, module_order)
    /\ UNCHANGED <<outside, MODULE_REGISTRY, module_order, warnings, history>>

NextSwitched ==
    \/ \E name \in ModuleNames, flag \in BOOLEAN : SetEnabled(name, flag)
    \/ GetAllCapabilities
    \/ ListEnabledModules
    \/ \E p \in NumberedPlans : Enter(p)
    \/ SkipEntry
    \/ SplitFault
    \/ UnknownModule
    \/ CallFault
    \/ CallRun
    \/ RunReturns
    \/ Return

SpecSwitched == InitRegistry /\ [][NextSwitched]_vars

----------------------------------------------------------------------------
(* Module.validate_parameters on its own *)

\* the names a class declares for the parameters of its capabilities
ParameterNames(module) ==
    UNION { { module.capabilities[i].parameters[k].name :
                  k \in 1..Len(module.capabilities[i].parameters) } :
            i \in 1..Len(module.capabilities) }

\* the bags tried: any of the declared names, each with a supplied value
Bags(module) == UNION { [S -> {"v"}] : S \in SUBSET ParameterNames(module) }

\* the capability names tried: the declared ones and one that is not
CapabilityNames(module) == get_capability_names(module) \cup { <<"nope">> }

\* module.validate_parameters(capability, params); params is the dict the
\* method works on, so what it holds afterwards is part of the answer
ValidateParameters(class, capability, params) ==
    /\ pc = "idle"
    /\ query' = << [op |-> "validate_parameters",
                    arg |-> [class |-> class, capability |-> capability,
                             params |-> params]] >>
    /\ answer' = << validate_parameters(Class(NewModule(class, 0)), capability, params) >>
    /\ UNCHANGED <<outside, MODULE_REGISTRY, module_order, warnings, history>>

NextValidate ==
    \E class \in ModuleClasses :
        \E capability \in CapabilityNames(Class(NewModule(class, 0))),
           params \in Bags(Class(NewModule(class, 0))) :
            ValidateParameters(class, capability, params)

SpecValidate == InitRegistry /\ [][NextValidate]_vars

----------------------------------------------------------------------------
(* What the claims speak of *)

Steps == plan.steps
Groups == plan.parallel_groups
PlanPositions == UNION { { <<g, k>> : k \in 1..Len(Groups[g]) } : g \in 1..Len(Groups) }
StepAt(pos) == FindStep(Steps, Groups[pos[1]][pos[2]])
Range(f) == { f[i] : i \in DOMAIN f }
Returned == {"returned_ok", "returned_fail"}
HasReturned == execution_result # <<>>

\* the group index of the first entry naming id, 0 if no group names it
GroupOf(id) ==
    IF \E p \in PlanPositions : Groups[p[1]][p[2]] = id
    THEN CHOOSE g \in 1..Len(Groups) :
            /\ \E k \in 1..Len(Groups[g]) : Groups[g][k] = id
            /\ \A h \in 1..(g-1) : \A k \in 1..Len(Groups[h]) : Groups[h][k] # id
    ELSE 0

\* the four structural checks of the plan validator
UniqueIds == \A i, j \in DOMAIN Steps : Steps[i].id = Steps[j].id => i = j
DependenciesExist ==
    \A i \in DOMAIN Steps : \A d \in Range(Steps[i].depends_on) :
        \E j \in DOMAIN Steps : Steps[j].id = d
GroupsPartition ==
    /\ \A p \in PlanPositions : \E i \in DOMAIN Steps : Steps[i].id = Groups[p[1]][p[2]]
    /\ \A i \in DOMAIN Steps :
          Cardinality({ p \in PlanPositions : Groups[p[1]][p[2]] = Steps[i].id }) = 1
DependenciesEarlier ==
    \A i \in DOMAIN Steps : \A d \in Range(Steps[i].depends_on) :
        GroupOf(d) # 0 /\ GroupOf(d) < GroupOf(Steps[i].id)
ValidPlan == UniqueIds /\ DependenciesExist /\ GroupsPartition /\ DependenciesEarlier

\* C1: a plan that fails a structural check is rejected atomically: none of its
\* steps is ever invoked on a provider
C1_RejectedAtomically == ~ValidPlan => (calls = <<>> /\ effects = <<>>)

\* C2: the groups of a plan that was executed partition its step ids, and the
\* execution has visited every step of the plan exactly once
C2_EachStepExactlyOnce ==
    HasReturned =>
        /\ GroupsPartition
        /\ \A i \in DOMAIN Steps :
              Cardinality({ n \in DOMAIN log : log[n].step = i }) = 1

\* C3: a step is invoked only after every step it depends on has reached a
\* terminal state
C3_DependenciesTerminalFirst ==
    \A n \in DOMAIN calls : \A d \in Range(Steps[StepAt(calls[n])].depends_on) :
        \E m \in DOMAIN log :
            /\ log[m].step # 0
            /\ Steps[log[m].step].id = d
            /\ log[m].pos # calls[n]

\* entries whose handling has begun, and entries whose handling is over
Started == Range(calls) \cup { log[n].pos : n \in DOMAIN log }
Terminal == { log[n].pos : n \in DOMAIN log }

\* C4: the groups run in list order with a barrier: no entry of a group is
\* started before every entry of the groups before it is terminal
C4_GroupBarrier ==
    /\ \A p \in Started : \A q \in PlanPositions : q[1] < p[1] => q \in Terminal
    /\ \A m, n \in DOMAIN log : m < n => log[m].pos[1] <= log[n].pos[1]

C4_Witness ==
    /\ pc = "await"
    /\ Entry[1] = 2
    /\ Len(Groups[1]) = 2
    /\ \E n \in DOMAIN log : log[n].kind \in Returned

\* C5: for a validated plan the returned steps_completed + steps_failed is the
\* number of steps of the plan
C5_CountsCoverAllSteps ==
    (HasReturned /\ ValidPlan) =>
        execution_result[1].steps_completed + execution_result[1].steps_failed
            = Len(Steps)

ModuleName(i) == Split1(Steps[i].module)[1]
WellFormed(i) == Len(Split1(Steps[i].module)) = 2
ProviderOf(i) == RegistryGet(MODULE_REGISTRY, ModuleName(i))

\* C6: a step that names an unregistered provider ends failed: it is counted
\* in failed and has an entry in errors
C6_UnknownProviderFails ==
    \A n \in DOMAIN log :
        (log[n].step # 0 /\ WellFormed(log[n].step) /\ ProviderOf(log[n].step) = <<>>)
        => /\ failed >= 1
           /\ \E m \in DOMAIN errors : errors[m].step_id = Steps[log[n].step].id

NeedsConfirmation(i) ==
    /\ i # 0
    /\ WellFormed(i)
    /\ ProviderOf(i) # <<>>
    /\ Class(ProviderOf(i)[1]).requires_confirmation
    /\ ~Class(ProviderOf(i)[1]).is_read_only

\* C7: when confirmation is required and the caller declines, a provider that
\* requires confirmation (and is not read-only) is never invoked
C7_DeclinedNeverInvoked ==
    (require_confirmation /\ confirm_callback = "decline")
    => \A n \in DOMAIN calls : ~NeedsConfirmation(StepAt(calls[n]))

\* C8: when confirmation is required and no callback is configured, a provider
\* that requires confirmation is never invoked
C8_NoCallbackDenies ==
    (require_confirmation /\ confirm_callback = "none")
    => \A n \in DOMAIN calls : ~NeedsConfirmation(StepAt(calls[n]))

\* the bag of step i lacks a required parameter that declares no default
MissingRequired(i) ==
    /\ i # 0
    /\ WellFormed(i)
    /\ ProviderOf(i) # <<>>
    /\ LET cap == FindCapability(Class(ProviderOf(i)[1]), Split1(Steps[i].module)[2]) IN
       /\ cap # <<>>
       /\ \E j \in DOMAIN cap[1].parameters :
             /\ cap[1].parameters[j].required
             /\ cap[1].parameters[j].default = None
             /\ cap[1].parameters[j].name \notin DOMAIN Steps[i].params

\* the entry of results that the n-th entry of log produced
ResultOf(n) == results[Cardinality({ m \in 1..n : log[m].kind \in Returned })]

Callable(p) ==
    /\ StepAt(p) # 0
    /\ WellFormed(StepAt(p))
    /\ ProviderOf(StepAt(p)) # <<>>
    /\ ~CallRaises(Steps[StepAt(p)].params)

\* C10: a fault raised by the invocation of one step becomes a failed outcome
\* of that step only: execute_plan does not raise, the fault is recorded, and
\* every entry is still visited and every callable one invoked
C10_FaultIsolated ==
    /\ pc # "raised"
    /\ \A n \in DOMAIN log :
          log[n].kind = "call_fault" =>
             /\ failed >= 1
             /\ \E m \in DOMAIN errors : errors[m].step_id = Steps[log[n].step].id
    /\ HasReturned =>
          \A p \in PlanPositions : p \in Terminal /\ (Callable(p) => p \in Range(calls))

C10_Witness ==
    /\ HasReturned
    /\ \E m, n \in DOMAIN log :
          /\ log[m].kind = "call_fault"
          /\ log[n].kind = "returned_ok"
          /\ m < n
          /\ log[m].pos[1] = log[n].pos[1]

Failures == {"split_fault", "no_module", "call_fault", "returned_fail"}

\* C11: every step that ended failed has an entry with its step id in the
\* returned errors list, and the list is as long as steps_failed
C11_EveryFailureInErrors ==
    HasReturned =>
        /\ \A n \in DOMAIN log :
              log[n].kind \in Failures =>
                  \E e \in DOMAIN execution_result[1].errors :
                      execution_result[1].errors[e].step_id = Steps[log[n].step].id
        /\ Len(execution_result[1].errors) = execution_result[1].steps_failed

\* C12: the returned success is true exactly when steps_failed is 0
C12_SuccessIffNoFailure ==
    HasReturned =>
        (execution_result[1].success <=> execution_result[1].steps_failed = 0)

C12_Witness ==
    /\ HasReturned
    /\ ~execution_result[1].success
    /\ execution_result[1].steps_completed = 1
    /\ execution_result[1].steps_failed = 1

\* the structural checks a plan fails, by the validator's name of the check
Violations ==
    (IF UniqueIds THEN {} ELSE {"duplicate_step_id"})
    \cup (IF DependenciesExist THEN {} ELSE {"unknown_dependency"})
    \cup (IF GroupsPartition THEN {} ELSE {"groups_not_partition"})
    \cup (IF DependenciesEarlier THEN {} ELSE {"dependency_not_earlier"})

\* C13: a plan that fails several structural checks at once is rejected with
\* every one of its violations reported: no step of it is invoked, and what
\* comes back to the caller names each violated check
C13_EveryViolationReported ==
    Cardinality(Violations) >= 2 =>
        /\ calls = <<>>
        /\ HasReturned =>
              \A v \in Violations :
                  \E e \in DOMAIN execution_result[1].errors :
                      execution_result[1].errors[e].error = <<v>>

\* the executor begins the first entry of a group
GroupStarts ==
    /\ AtEntry
    /\ Entry[2] = 1
    /\ idx' = idx + 1 \/ pc' = "await"

\* C14: once the elapsed time exceeds the execution_timeout budget no further
\* group is started
C14_NoGroupStartsAfterTimeout ==
    [][elapsed > execution_timeout => ~GroupStarts]_vars

\* a step is suspended in await module.run and the entry after it belongs to
\* the same group
SiblingWaits ==
    /\ pc = "await"
    /\ idx + 2 <= Len(Order)
    /\ Order[idx + 2][1] = Entry[1]

\* the executor takes up an entry of the plan
BeginsEntry == SkipEntry \/ SplitFault \/ UnknownModule \/ CallFault \/ CallRun

\* C15: a suspended step pauses only itself: while it is suspended the
\* executor can take up a sibling of its group
C15_SiblingStartsWhileSuspended == SiblingWaits => ENABLED BeginsEntry

\* C16: a failed step aborts nothing: when the executor has returned, every
\* entry of every group after the group of a failed step has been visited,
\* and those that reach the call of run, the dependents of the failed step
\* among them, have been invoked
C16_FailureAbortsNoLaterGroup ==
    HasReturned =>
        \A n \in DOMAIN log :
            log[n].kind \in Failures =>
                \A p \in PlanPositions :
                    p[1] > log[n].pos[1] =>
                        /\ p \in Terminal
                        /\ Callable(p) => p \in Range(calls)

\* a step of group 1 has failed and its dependent in group 2 has run
C16_Witness ==
    /\ HasReturned
    /\ \E m, n \in DOMAIN log :
          /\ log[m].kind \in Failures
          /\ log[m].pos[1] = 1
          /\ log[n].pos[1] = 2
          /\ log[n].kind = "returned_ok"
          /\ Steps[log[m].step].id \in Range(Steps[log[n].step].depends_on)

Malformed == llm_response # <<>> /\ llm_response[1].shape \in {"not_json", "wrong_shape"}

\* C17: malformed output of the plan generation is reported to the caller as
\* an error and nothing is executed: execute_plan returns no result for it
\* and the router's Response does not report success
C17_MalformedPlanReported ==
    Malformed =>
        /\ calls = <<>>
        /\ response # <<>> => ~response[1].success

\* the registry was last read by op, and has not changed since
Asked(op) == query # <<>> /\ query[1].op = op

RECURSIVE LastRegistered(_, _)
LastRegistered(h, name) ==
    IF h = <<>>
    THEN IF name \in DOMAIN InitialRegistry THEN <<InitialRegistry[name].serial>> ELSE <<>>
    ELSE LET call == h[Len(h)] IN
         IF call.name = name /\ call.op = "register" THEN <<call.serial>>
         ELSE IF call.name = name /\ call.op = "unregister" THEN <<>>
         ELSE LastRegistered(SubSeq(h, 1, Len(h) - 1), name)

\* the names registered by h while they were registered, in the order of h
RECURSIVE Overwritten(_)
Overwritten(h) ==
    IF h = <<>> THEN <<>>
    ELSE LET before == SubSeq(h, 1, Len(h) - 1)
             call == h[Len(h)]
         IN Overwritten(before) \o
            (IF call.op = "register" /\ LastRegistered(before, call.name) # <<>>
             THEN <<call.name>> ELSE <<>>)

IsLastRegistered(found, name) ==
    /\ found = <<>> <=> LastRegistered(history, name) = <<>>
    /\ found # <<>> =>
          /\ found[1].serial = LastRegistered(history, name)[1]
          /\ Class(found[1]).name = name

\* C19: after any register and unregister calls the registry holds one
\* provider for each of its names, get(name) returns the provider registered
\* last under the name, None if there is none or it was unregistered since,
\* and every register of a registered name has logged a warning
C19_RegisterReplacesByName ==
    /\ Len(module_order) = Cardinality(DOMAIN MODULE_REGISTRY)
    /\ Range(module_order) = DOMAIN MODULE_REGISTRY
    /\ \A name \in ModuleNames :
          IsLastRegistered(RegistryGet(MODULE_REGISTRY, name), name)
    /\ Asked("get") => IsLastRegistered(answer, query[1].arg)
    /\ warnings = Overwritten(history)

\* get returns a provider that has replaced another one, with a warning
C19_Witness ==
    /\ Asked("get")
    /\ answer # <<>>
    /\ answer[1].serial > 0
    /\ warnings # <<>>

\* C20: the capability listing holds one entry for each capability of each
\* registered provider that is enabled, none for a provider that is disabled
\* or not registered, and every entry's full_name is its provider's name, the
\* separator and its capability's name; being determined by the registry it
\* is the same for every call made while the registry does not change
C20_ListingIsEnabledSnapshot ==
    Asked("get_all_capabilities") =>
        /\ \A name \in DOMAIN MODULE_REGISTRY :
              LET caps == Class(MODULE_REGISTRY[name]).capabilities IN
              \A k \in 1..Len(caps) :
                  Cardinality({ i \in DOMAIN answer :
                                  /\ answer[i].module = name
                                  /\ answer[i].name = caps[k].name })
                      = IF MODULE_REGISTRY[name].enabled THEN 1 ELSE 0
        /\ \A i \in DOMAIN answer :
              /\ answer[i].module \in DOMAIN MODULE_REGISTRY
              /\ MODULE_REGISTRY[answer[i].module].enabled
              /\ answer[i].name \in
                    get_capability_names(Class(MODULE_REGISTRY[answer[i].module]))
              /\ answer[i].full_name = answer[i].module \o <<SEP>> \o answer[i].name

\* a listing taken while one provider is disabled and another is enabled
C20_Witness ==
    /\ Asked("get_all_capabilities")
    /\ answer # <<>>
    /\ \E name \in DOMAIN MODULE_REGISTRY : ~MODULE_REGISTRY[name].enabled

\* C21: after validate_parameters has accepted a bag, every declared
\* parameter of the capability that was absent and has a declared default is
\* in the bag with that default, required or not, and what was supplied is
\* in the bag as supplied
C21_DefaultsFilledIn ==
    (Asked("validate_parameters") /\ answer[1].valid) =>
        LET given == query[1].arg.params
            after == answer[1].params
            cap_def == FindCapability(Class(NewModule(query[1].arg.class, 0)),
                                      query[1].arg.capability)[1]
        IN /\ \A k \in 1..Len(cap_def.parameters) :
                 LET param == cap_def.parameters[k] IN
                 (param.name \notin DOMAIN given /\ param.default # None) =>
                     /\ param.name \in DOMAIN after
                     /\ after[param.name] = param.default
           /\ \A n \in DOMAIN given : n \in DOMAIN after /\ after[n] = given[n]

\* C22: the step ids of a plan that is executed are pairwise distinct: of a
\* plan in which two steps share an id no entry is taken up and no result
\* is returned
C22_ExecutedIdsDistinct == (log # <<>> \/ HasReturned) => UniqueIds

C24_RegistryReadOnly ==
    [][MODULE_REGISTRY' = MODULE_REGISTRY /\ module_order' = module_order]_vars

\* an execution that has looked up a registered provider and an unregistered
\* name has returned, and the registry is the one of the start
C24_Witness ==
    /\ HasReturned
    /\ MODULE_REGISTRY = InitialRegistry
    /\ \E m, n \in DOMAIN log : log[m].kind = "no_module" /\ log[n].kind \in Returned

\* the entries of the log of the given kinds, in the order they were visited
RECURSIVE LogOf(_, _)
LogOf(kinds, n) ==
    IF n = 0 THEN <<>>
    ELSE LogOf(kinds, n - 1) \o (IF log[n].kind \in kinds THEN <<log[n]>> ELSE <<>>)

Faults == {"split_fault", "call_fault"}

\* C25: in the result returned, steps_completed is the number of results
\* with success, steps_failed the number of results without plus the number
\* of errors; the results are those of the invocations that returned, each
\* with the id of its step, the errors those of the invocations that raised,
\* so an invocation is in one of the two lists at most
C25_CountsMatchLists ==
    HasReturned =>
        LET r == execution_result[1]
            returned == LogOf(Returned, Len(log))
            raised == LogOf(Faults, Len(log))
        IN /\ r.steps_completed =
                 Cardinality({ k \in DOMAIN r.results : r.results[k].success })
           /\ r.steps_failed =
                 Cardinality({ k \in DOMAIN r.results : ~r.results[k].success })
                 + Len(r.errors)
           /\ Len(r.results) = Len(returned)
           /\ \A k \in DOMAIN r.results :
                 r.results[k].step_id = Steps[returned[k].step].id
           /\ Len(r.errors) = Len(raised)
           /\ \A k \in DOMAIN r.errors :
                 r.errors[k].step_id = Steps[raised[k].step].id

\* a result with a success, a failure that was returned and one that was raised
C25_Witness ==
    /\ HasReturned
    /\ execution_result[1].errors # <<>>
    /\ \E j, k \in DOMAIN execution_result[1].results :
          /\ execution_result[1].results[j].success
          /\ ~execution_result[1].results[k].success

\* the entries were visited once each, in the order of the lists
VisitedInOrder ==
    /\ Len(log) = Len(Order)
    /\ \A n \in DOMAIN log : log[n].pos = Order[n]

\* C26: execute_plan comes to return an ExecutionResult, for any plan, having
\* visited every entry of every group once, in list order
C26_Terminates == (pc = "loop") ~> (HasReturned /\ VisitedInOrder)

\* a plan with an entry that names no step and a step that no provider can
\* take has been executed to the end
C26_Witness ==
    /\ HasReturned
    /\ VisitedInOrder
    /\ \E m, n \in DOMAIN log :
          log[m].kind = "no_step" /\ log[n].kind \in {"split_fault", "no_module"}

\* C27: of a plan with steps but no groups no step is executed, execute_plan
\* returns success with steps_completed = 0 and steps_failed = 0, and the
\* router reports a completed task
C27_NoGroupsCompletesNothing ==
    (Steps # <<>> /\ Groups = <<>>) =>
        /\ log = <<>>
        /\ calls = <<>>
        /\ HasReturned =>
              /\ execution_result[1].success
              /\ execution_result[1].steps_completed = 0
              /\ execution_result[1].steps_failed = 0
        /\ response # <<>> =>
              response[1] = [text |-> "Task completed", n |-> 0, success |-> TRUE]

\* the router has answered for a plan with steps and no groups that the
\* planner read from the backend's answer
C27_Witness ==
    /\ response # <<>>
    /\ llm_response[1].shape = "plan"
    /\ Steps # <<>>
    /\ Groups = <<>>

\* the names of the registered providers that are enabled
Enabled == { name \in DOMAIN MODULE_REGISTRY : MODULE_REGISTRY[name].enabled }

\* C28: the executor's lookup ignores the enabled flag: an entry whose step
\* names a registered provider is invoked whether the provider is enabled or
\* not, and passed over only when the name is not registered, while
\* get_all_capabilities and list_enabled_modules leave out the providers
\* that are not enabled
C28_DisabledStillInvoked ==
    /\ (AtEntry /\ StepIndex # 0 /\ Len(Parts) = 2) =>
          /\ Parts[1] \in DOMAIN MODULE_REGISTRY => ENABLED (CallRun \/ CallFault)
          /\ Parts[1] \notin DOMAIN MODULE_REGISTRY => ENABLED UnknownModule
    /\ \A k \in DOMAIN log :
          (log[k].step # 0 /\ WellFormed(log[k].step)) =>
              (log[k].kind = "no_module"
                  <=> ModuleName(log[k].step) \notin DOMAIN MODULE_REGISTRY)
    /\ Asked("get_all_capabilities") =>
          { answer[i].module : i \in DOMAIN answer } = Enabled
    /\ Asked("list_enabled_modules") => Range(answer) = Enabled

\* the provider of a step has been entered although it is not enabled and
\* the listing read before the call leaves it out
C28_Witness ==
    /\ Asked("get_all_capabilities")
    /\ \E k \in DOMAIN log :
          /\ log[k].kind = "returned_ok"
          /\ ModuleName(log[k].step) \in DOMAIN MODULE_REGISTRY \ Enabled
          /\ \A i \in DOMAIN answer : answer[i].module # ModuleName(log[k].step)

\* C29: an entry whose step's module string has no separator enters no
\* provider: one entry {step_id, error} is appended to errors, steps_failed
\* grows by one, results and steps_completed stay as they are, and the loop
\* goes on with the next entry
C29_NoSeparatorCaught ==
    [][ (AtEntry /\ (\E i \in DOMAIN Steps : Steps[i].id = EntryId)
                /\ ~HasSep(Step.module)) =>
           /\ Len(errors') = Len(errors) + 1
           /\ SubSeq(errors', 1, Len(errors)) = errors
           /\ DOMAIN errors'[Len(errors')] = {"step_id", "error"}
           /\ errors'[Len(errors')].step_id = EntryId
           /\ failed' = failed + 1
           /\ results' = results
           /\ completed' = completed
           /\ calls' = calls
           /\ effects' = effects
           /\ idx' = idx + 1
           /\ pc' = "loop" ]_vars

\* a step without separator has been caught and the entry after it has run
C29_Witness ==
    \E k \in DOMAIN log :
        /\ log[k].kind = "split_fault"
        /\ k < Len(log)
        /\ log[k + 1].kind = "returned_ok"
        /\ Len(errors) = 1
        /\ calls # <<>>

\* the id a position of the groups holds
IdAt(pos) == plan.parallel_groups[pos[1]][pos[2]]

\* C30: an entry whose id is the id of no step is passed over and changes
\* none of the counters and lists and enters no provider; an entry whose id
\* several steps share is run for the first of them in the steps list
C30_UnmatchedSkippedFirstMatchRuns ==
    [][ /\ (AtEntry /\ \A i \in DOMAIN Steps : Steps[i].id # EntryId) =>
              /\ calls' = calls
              /\ effects' = effects
              /\ results' = results
              /\ errors' = errors
              /\ completed' = completed
              /\ failed' = failed
              /\ idx' = idx + 1
              /\ pc' = "loop"
        /\ Len(log') = Len(log) + 1 =>
              LET e == log'[Len(log')]
                  matching == { i \in DOMAIN Steps : Steps[i].id = IdAt(e.pos) }
              IN IF matching = {}
                 THEN e.step = 0 /\ e.kind = "no_step"
                 ELSE /\ e.step \in matching
                      /\ \A i \in matching : e.step <= i
                      /\ e.kind # "no_step" ]_vars

\* of two different steps under one id the first has run, and the entry
\* after it, whose id is the id of no step, has been passed over
C30_Witness ==
    /\ Len(Steps) = 2
    /\ Steps[1].id = Steps[2].id
    /\ Steps[1].module # Steps[2].module
    /\ \E k \in DOMAIN log : log[k].step = 1 /\ log[k].kind = "returned_ok"
    /\ \E k \in DOMAIN log : log[k].kind = "no_step"
====
